---- MODULE Spec2Model ----
(***************************************************************************)
(* A model of kedro-kubeflow's resolved configuration (config.py), of the  *)
(* Kubeflow client built on it (kfpclient.py) and of the one-pod pipeline  *)
(* generator as its unit tests exercise it.                                *)
(*                                                                         *)
(* Python values are tagged records, so that int(), float() and str() are  *)
(* conversions that change a value; a dict is a function from its keys.    *)
(* A call either returns a value or raises: Return(v) / Raise(type, msg).  *)
(***************************************************************************)
EXTENDS Integers, Sequences, FiniteSets, TLC

VARIABLES
    config,     \* PluginConfig._raw: the resolved plugin configuration
    context,    \* the Kedro context handed to the generator (env, pipelines)
    call,       \* the last call made: [op |-> ..., ...arguments]
    outcome,    \* what that call returned or raised
    server      \* the Kubeflow Pipelines service behind kfp.Client

vars == <<config, context, call, outcome, server>>

-----------------------------------------------------------------------------
(* Bounds of the model *)

\* resource quantities 100m .. MaxQuantity*100m
MaxQuantity == 2
\* the pipeline is a chain of 1 .. MaxNodes nodes
MaxNodes == 2
\* configured retry counts 0 .. MaxRetries
MaxRetries == 1
\* configured run names run1 .. run<MaxNames>
MaxNames == 2
\* experiment names exp1 .. exp<MaxExperiments>, in each of the namespaces
MaxExperiments == 2
\* the decimal literals int() and float() read: 0 .. MaxLiteral
MaxLiteral == 4

\* the most parameters of a pipeline
MaxParams == 3

\* the most recurring runs created in a behaviour
MaxJobs == 4

\* the recurring runs on a page of list_recurring_runs, which schedule() calls
\* with neither page size nor page token (10 in kfp; smaller here)
PageSize == 2

-----------------------------------------------------------------------------
(* Python values *)

PyNone == [t |-> "None"]
PyInt(n) == [t |-> "int", i |-> n]
\* a float is kept in halves: PyFloat(3) is 1.5
PyFloat(h) == [t |-> "float", h |-> h]
PyStr(s) == [t |-> "str", s |-> s]
\* datetime.date
PyDate(y, m, d) == [t |-> "date", y |-> y, m |-> m, d |-> d]

PyList(items) == [t |-> "list", items |-> items]

PyBool(b) == [t |-> "bool", b |-> b]

EmptyDict == [k \in {} |-> PyNone]

Return(v) == [kind |-> "return", val |-> v]
Raise(type, msg) == [kind |-> "raise", type |-> type, msg |-> msg]

\* the rest of a computation whose first step o may have raised: the exception
\* of o propagates, otherwise the computation goes on to r (which reads o.val)
Then(o, r) == IF o.kind = "raise" THEN o ELSE r

\* {**a, **b}
DictMerge(a, b) ==
    [k \in (DOMAIN a) \cup (DOMAIN b) |-> IF k \in DOMAIN b THEN b[k] ELSE a[k]]

\* int("3") is 3; text that is no decimal literal is a ValueError
ParseNat(s) ==
    IF \E n \in 0..MaxLiteral : ToString(n) = s
    THEN Return(CHOOSE n \in 0..MaxLiteral : ToString(n) = s)
    ELSE Raise("ValueError", "invalid literal: " \o s)

\* "n", "n.0" or "n.5" as a number of halves
ParseHalves(s) ==
    IF \E n \in 0..MaxLiteral : s \in {ToString(n), ToString(n) \o ".0"}
    THEN Return(2 * (CHOOSE n \in 0..MaxLiteral :
                        s \in {ToString(n), ToString(n) \o ".0"}))
    ELSE IF \E n \in 0..MaxLiteral : s = ToString(n) \o ".5"
    THEN Return(2 * (CHOOSE n \in 0..MaxLiteral : s = ToString(n) \o ".5") + 1)
    ELSE Raise("ValueError", "could not convert string to float: " \o s)

\* int(x): truncates a float, parses a string, fails on None
PyIntOf(x) ==
    CASE x.t = "int" -> Return(x)
      [] x.t = "bool" -> Return(PyInt(IF x.b THEN 1 ELSE 0))
      [] x.t = "float" -> Return(PyInt(x.h \div 2))
      [] x.t = "str" -> Then(ParseNat(x.s), Return(PyInt(ParseNat(x.s).val)))
      [] OTHER -> Raise("TypeError", "int() argument must be a string or a number")

\* float(x)
PyFloatOf(x) ==
    CASE x.t = "int" -> Return(PyFloat(2 * x.i))
      [] x.t = "bool" -> Return(PyFloat(IF x.b THEN 2 ELSE 0))
      [] x.t = "float" -> Return(x)
      [] x.t = "str" -> Then(ParseHalves(x.s), Return(PyFloat(ParseHalves(x.s).val)))
      [] OTHER -> Raise("TypeError", "float() argument must be a string or a number")

\* str(x)
PyStrOf(x) ==
    CASE x.t = "int" -> PyStr(ToString(x.i))
      [] x.t = "bool" -> PyStr(IF x.b THEN "True" ELSE "False")
      [] x.t = "float" ->
            PyStr(ToString(x.h \div 2) \o (IF x.h % 2 = 0 THEN ".0" ELSE ".5"))
      [] x.t = "str" -> x
      [] OTHER -> PyStr("None")

\* bool(x)
PyTruth(x) ==
    CASE x.t = "int" -> x.i # 0
      [] x.t = "bool" -> x.b
      [] x.t = "float" -> x.h # 0
      [] x.t = "str" -> x.s # ""
      [] OTHER -> FALSE

\* the decimal digits of n, with zeros in front up to the width: "%0*d"
RECURSIVE ZeroPadded(_, _)
ZeroPadded(n, width) ==
    IF width <= 1 \/ n >= 10 ^ (width - 1)
    THEN ToString(n)
    ELSE "0" \o ZeroPadded(n, width - 1)

\* date.isoformat(): YYYY-MM-DD
date_isoformat(date) ==
    ZeroPadded(date.y, 4) \o "-" \o ZeroPadded(date.m, 2) \o "-" \o ZeroPadded(date.d, 2)

-----------------------------------------------------------------------------
(* class Config *)

Config_get_or_default(raw, prop, default) ==
    IF prop \in DOMAIN raw THEN raw[prop] ELSE default

\* mutant: a missing key reads as None, as dict.get does
Config_get_or_fail_OrNone(raw, prefix, prop) ==
    Return(IF prop \in DOMAIN raw THEN raw[prop] ELSE PyNone)

Config_get_or_fail(raw, prefix, prop) ==
    IF prop \in DOMAIN raw
    THEN Return(raw[prop])
    ELSE Raise("MissingConfigException",
               "Missing required configuration: '" \o prefix \o prop \o "'.")

Config_get_prefix == ""
RunConfig_get_prefix == "run_config."

-----------------------------------------------------------------------------
(* class NodeResources *)

\* mutants: the default wins; no merge when the node has an entry
NodeResources_get_for_DefaultWins(raw, node_name) ==
    LET defaults == Config_get_or_default(raw, "__default__", EmptyDict)
        node_specific == Config_get_or_default(raw, node_name, EmptyDict)
    IN  DictMerge(node_specific, defaults)

NodeResources_get_for_NoMerge(raw, node_name) ==
    LET defaults == Config_get_or_default(raw, "__default__", EmptyDict)
    IN  Config_get_or_default(raw, node_name, defaults)

NodeResources_get_for(raw, node_name) ==
    LET defaults == Config_get_or_default(raw, "__default__", EmptyDict)
        node_specific == Config_get_or_default(raw, node_name, EmptyDict)
    IN  DictMerge(defaults, node_specific)

\* mutant: compares with None, so every policy counts as set
NodeResources_is_set_for_NotNone(raw, node_name) ==
    NodeResources_get_for(raw, node_name) # PyNone

NodeResources_is_set_for(raw, node_name) ==
    NodeResources_get_for(raw, node_name) # EmptyDict

-----------------------------------------------------------------------------
(* class RetryPolicy *)

\* values[key] = v
DictSet(values, key, v) ==
    [k \in (DOMAIN values) \cup {key} |-> IF k = key THEN v ELSE values[k]]

\* mutants: a missing backoff_factor is looked up all the same; the duration is lost
RetryPolicy_get_for_NoGuard(raw, node_name) ==
    LET defaults == Config_get_or_default(raw, "__default__", EmptyDict)
        node_specific == Config_get_or_default(raw, node_name, EmptyDict)
        values == DictMerge(defaults, node_specific)
        num_retries(vals) ==
            LET n == PyIntOf(Config_get_or_default(vals, "num_retries", PyInt(0)))
            IN  Then(n, Return(DictSet(vals, "num_retries", n.val)))
        backoff_factor(vals) ==
            IF "backoff_factor" \in DOMAIN vals
            THEN LET f == PyFloatOf(vals["backoff_factor"])
                 IN  Then(f, Return(DictSet(vals, "backoff_factor", f.val)))
            ELSE Raise("KeyError", "backoff_factor")
        backoff_duration(vals) ==
            Return(DictSet(vals, "backoff_duration",
                           IF "backoff_duration" \in DOMAIN vals
                           THEN PyStrOf(vals["backoff_duration"])
                           ELSE PyNone))
    IN  IF values = EmptyDict
        THEN Return(EmptyDict)
        ELSE LET v1 == num_retries(values)
                 v2 == Then(v1, backoff_factor(v1.val))
             IN  Then(v2, backoff_duration(v2.val))

RetryPolicy_get_for_NoDuration(raw, node_name) ==
    LET defaults == Config_get_or_default(raw, "__default__", EmptyDict)
        node_specific == Config_get_or_default(raw, node_name, EmptyDict)
        values == DictMerge(defaults, node_specific)
        num_retries(vals) ==
            LET n == PyIntOf(Config_get_or_default(vals, "num_retries", PyInt(0)))
            IN  Then(n, Return(DictSet(vals, "num_retries", n.val)))
        backoff_factor(vals) ==
            IF "backoff_factor" \in DOMAIN vals
            THEN LET f == PyFloatOf(vals["backoff_factor"])
                 IN  Then(f, Return(DictSet(vals, "backoff_factor", f.val)))
            ELSE Return(DictSet(vals, "backoff_factor", PyNone))
        backoff_duration(vals) == Return(DictSet(vals, "backoff_duration", PyNone))
    IN  IF values = EmptyDict
        THEN Return(EmptyDict)
        ELSE LET v1 == num_retries(values)
                 v2 == Then(v1, backoff_factor(v1.val))
             IN  Then(v2, backoff_duration(v2.val))

RetryPolicy_get_for(raw, node_name) ==
    LET defaults == Config_get_or_default(raw, "__default__", EmptyDict)
        node_specific == Config_get_or_default(raw, node_name, EmptyDict)
        values == DictMerge(defaults, node_specific)
        num_retries(vals) ==
            LET n == PyIntOf(Config_get_or_default(vals, "num_retries", PyInt(0)))
            IN  Then(n, Return(DictSet(vals, "num_retries", n.val)))
        backoff_factor(vals) ==
            IF "backoff_factor" \in DOMAIN vals
            THEN LET f == PyFloatOf(vals["backoff_factor"])
                 IN  Then(f, Return(DictSet(vals, "backoff_factor", f.val)))
            ELSE Return(DictSet(vals, "backoff_factor", PyNone))
        backoff_duration(vals) ==
            Return(DictSet(vals, "backoff_duration",
                           IF "backoff_duration" \in DOMAIN vals
                           THEN PyStrOf(vals["backoff_duration"])
                           ELSE PyNone))
    IN  IF values = EmptyDict
        THEN Return(EmptyDict)
        ELSE LET v1 == num_retries(values)
                 v2 == Then(v1, backoff_factor(v1.val))
             IN  Then(v2, backoff_duration(v2.val))

RetryPolicy_is_set_for(raw, node_name) ==
    LET policy == RetryPolicy_get_for(raw, node_name)
    IN  Then(policy, Return(policy.val # EmptyDict))

-----------------------------------------------------------------------------
(* class RunConfig, class PluginConfig *)

RunConfig_image(raw) == Config_get_or_fail(raw, RunConfig_get_prefix, "image")

RunConfig_image_pull_policy(raw) ==
    Config_get_or_default(raw, "image_pull_policy", PyStr("IfNotPresent"))

RunConfig_root(raw) == Config_get_or_fail(raw, RunConfig_get_prefix, "root")

RunConfig_experiment_name(raw) ==
    Config_get_or_fail(raw, RunConfig_get_prefix, "experiment_name")

RunConfig_run_name(raw) == Config_get_or_fail(raw, RunConfig_get_prefix, "run_name")

\* the default, self._get_or_fail("run_name"), is an argument of the call: it is
\* evaluated before _get_or_default looks for scheduled_run_name
RunConfig_scheduled_run_name(raw) ==
    LET default == Config_get_or_fail(raw, RunConfig_get_prefix, "run_name")
    IN  Then(default,
             Return(Config_get_or_default(raw, "scheduled_run_name", default.val)))

RunConfig_description(raw) == Config_get_or_default(raw, "description", PyNone)

\* the _raw of the NodeResources / RetryPolicy object returned
RunConfig_resources(raw) == Config_get_or_default(raw, "resources", EmptyDict)

RunConfig_retry_policy(raw) == Config_get_or_default(raw, "retry_policy", EmptyDict)

\* mutant: the default is the empty name, not None
RunConfig_on_exit_pipeline_EmptyDefault(raw) ==
    Config_get_or_default(raw, "on_exit_pipeline", PyStr(""))

\* mutant: another key is read
RunConfig_on_exit_pipeline_WrongKey(raw) ==
    Config_get_or_default(raw, "on_exit", PyNone)

\* mutant: artifacts are exposed only on request
RunConfig_store_kedro_outputs_as_kfp_artifacts_OptIn(raw) ==
    PyBool(PyTruth(Config_get_or_default(
        raw, "store_kedro_outputs_as_kfp_artifacts", PyBool(FALSE))))

RunConfig_store_kedro_outputs_as_kfp_artifacts(raw) ==
    PyBool(PyTruth(Config_get_or_default(
        raw, "store_kedro_outputs_as_kfp_artifacts", PyBool(TRUE))))

RunConfig_on_exit_pipeline(raw) ==
    Config_get_or_default(raw, "on_exit_pipeline", PyNone)

\* mutant: the strategy is not validated
RunConfig_node_merge_strategy_Unchecked(raw) ==
    Return(PyStrOf(Config_get_or_default(raw, "node_merge_strategy", PyStr("none"))))

RunConfig_node_merge_strategy(raw) ==
    LET strategy ==
            PyStrOf(Config_get_or_default(raw, "node_merge_strategy", PyStr("none")))
    IN  IF strategy.s \notin {"none", "full"}
        THEN Raise("ValueError",
                   "Invalid " \o RunConfig_get_prefix \o "node_merge_strategy: "
                       \o strategy.s)
        ELSE Return(strategy)

PluginConfig_host(raw) == Config_get_or_fail(raw, Config_get_prefix, "host")

\* the _raw of the RunConfig object returned
PluginConfig_run_config(raw) ==
    Config_get_or_fail(raw, Config_get_prefix, "run_config")

PluginConfig_project_id(raw) ==
    Config_get_or_fail(raw, Config_get_prefix, "project_id")

PluginConfig_region(raw) == Config_get_or_fail(raw, Config_get_prefix, "region")

-----------------------------------------------------------------------------
(* The Kedro context of the generator's tests: create_generator *)

DataSetName(i) ==
    IF i <= 5 THEN <<"A", "B", "C", "D", "E">>[i] ELSE "D" \o ToString(i)

\* node(identity, "A", "B", name="node1"), node(identity, "B", "C", name="node2")
ChainNode(i) ==
    [name |-> "node" \o ToString(i),
     inputs |-> <<DataSetName(i)>>,
     outputs |-> <<DataSetName(i + 1)>>]

\* params: the pipeline's parameters in declaration order, [name, value];
\* catalog: dataset name -> descriptor (config_loader.get)
TestContext(n) ==
    [env |-> "unittests",
     params |-> <<>>,
     catalog |-> EmptyDict,
     pipelines |-> ("pipeline" :> [i \in 1..n |-> ChainNode(i)])]

\* create_generator(params=..., catalog=...)
ContextWith(n, params, catalog) ==
    [TestContext(n) EXCEPT !.params = params, !.catalog = catalog]

\* the datasets the nodes of a pipeline write
PipelineOutputs(ctx, pipeline) ==
    {ctx.pipelines[pipeline][i].outputs[j] :
        i \in DOMAIN ctx.pipelines[pipeline], j \in 1..1}

\* create_generator: PluginConfig({"host": "http://unittest", "run_config": config})
TestConfig(run_config) ==
    [host |-> PyStr("http://unittest"), run_config |-> run_config]

NodeNames(ctx, pipeline) ==
    {ctx.pipelines[pipeline][i].name : i \in DOMAIN ctx.pipelines[pipeline]}

-----------------------------------------------------------------------------
(* OnePodPipelineGenerator: the merged strategy *)

\* the retry trigger of every unit that has a retry policy
RETRY_TRIGGER == "Always"

\* the name of the exit handler's unit
EXIT_HANDLER_NAME == "on-exit"

\* a container step before any policy is attached to it
ContainerOp(name, image, command) ==
    [name |-> name,
     image |-> image,
     image_pull_policy |-> PyNone,
     command |-> command,
     resources |-> PyNone,
     num_retries |-> PyInt(0),
     retry_policy |-> PyNone,
     backoff_factor |-> PyNone,
     backoff_duration |-> PyNone,
     backoff_max_duration |-> PyNone,
     args |-> <<>>,
     file_outputs |-> EmptyDict]

\* the resource spec: attached only when a policy is set for the unit's name
AttachResources(op, run_config) ==
    LET resources == RunConfig_resources(run_config)
        policy == NodeResources_get_for(resources, op.name)
    IN  IF NodeResources_is_set_for(resources, op.name)
        THEN [op EXCEPT !.resources = [limits |-> policy, requests |-> policy]]
        ELSE op

\* the retry spec: attached only when a policy is set for the unit's name
AttachRetry(op, run_config) ==
    LET retry_policy == RunConfig_retry_policy(run_config)
        is_set == RetryPolicy_is_set_for(retry_policy, op.name)
        policy == RetryPolicy_get_for(retry_policy, op.name)
    IN  Then(is_set,
            IF is_set.val
            THEN Then(policy,
                    Return([op EXCEPT
                        !.num_retries = policy.val["num_retries"],
                        !.retry_policy = PyStr(RETRY_TRIGGER),
                        !.backoff_factor = policy.val["backoff_factor"],
                        !.backoff_duration = policy.val["backoff_duration"]]))
            ELSE Return(op))

customize_op(op, image_pull_policy, run_config) ==
    AttachRetry(
        AttachResources([op EXCEPT !.image_pull_policy = PyStr(image_pull_policy)],
                        run_config),
        run_config)

\* kedro run --config config.yaml --env <env> --pipeline <pipeline>: the whole
\* pipeline in one process
RunPipelineCommand(ctx, pipeline) ==
    <<"kedro", "run", "--config", "config.yaml", "--env", ctx.env,
      "--pipeline", pipeline>>

\* the directory of the project in the container
KEDRO_ROOT == "/home/kedro/"

\* the outputs of the pipeline that the catalog stores in a file, each under
\* the container's root; none when the artifacts are not to be exposed
FileOutputs(run_config, ctx, pipeline) ==
    IF RunConfig_store_kedro_outputs_as_kfp_artifacts(run_config).b
    THEN [output \in {o \in PipelineOutputs(ctx, pipeline) :
                        /\ o \in DOMAIN ctx.catalog
                        /\ "filepath" \in DOMAIN ctx.catalog[o]}
            |-> KEDRO_ROOT \o ctx.catalog[output].filepath]
    ELSE EmptyDict

\* dsl.PipelineParam(name), as it is written into an argument list
PipelineParam(name) == "{{pipelineparam:op=;name=" \o name \o "}}"

\* the arguments of a unit: a name and a run-time reference per parameter
create_arguments_from_parameters(params) ==
    [i \in 1..(2 * Len(params) + 1) |->
        IF i = 1 THEN "_"
        ELSE IF i % 2 = 0 THEN params[i \div 2].name
        ELSE PipelineParam(params[(i - 1) \div 2].name)]

\* mutant: a date is passed on as it is
ParameterDefault_Unchanged(value) == value

\* the default of a formal input: dates as ISO text, other values as they are
ParameterDefault(value) ==
    IF value.t = "date" THEN PyStr(date_isoformat(value)) ELSE value

\* the formal inputs of the pipeline function, one per parameter
maybe_add_params(params) ==
    [i \in 1..Len(params) |->
        [name |-> params[i].name, default |-> ParameterDefault(params[i].value)]]

generate_pipeline(cfg, ctx, pipeline, image, image_pull_policy) ==
    LET run_config == PluginConfig_run_config(cfg)
        on_exit == RunConfig_on_exit_pipeline(run_config.val)
        arguments == create_arguments_from_parameters(ctx.params)
        main == customize_op(
                    [ContainerOp(pipeline, image, RunPipelineCommand(ctx, pipeline))
                        EXCEPT !.args = arguments,
                               !.file_outputs =
                                    FileOutputs(run_config.val, ctx, pipeline)],
                    image_pull_policy, run_config.val)
        exit == customize_op(
                    [ContainerOp(EXIT_HANDLER_NAME, image,
                                 RunPipelineCommand(ctx, on_exit.s))
                        EXCEPT !.args = arguments],
                    image_pull_policy, run_config.val)
        parameters == maybe_add_params(ctx.params)
    IN  Then(run_config,
            IF on_exit = PyNone
            THEN Then(main,
                    Return([ops |-> (pipeline :> main.val),
                            edges |-> {},
                            exit_handlers |-> {},
                            parameters |-> parameters]))
            ELSE Then(main, Then(exit,
                    Return([ops |-> (pipeline :> main.val)
                                        @@ (EXIT_HANDLER_NAME :> exit.val),
                            edges |-> {},
                            exit_handlers |-> {EXIT_HANDLER_NAME},
                            parameters |-> parameters]))))

-----------------------------------------------------------------------------
(* The Kubeflow Pipelines service behind kfp.Client *)

\* no workflow has been submitted
NoRun == [submitted |-> FALSE]

\* experiments: the experiments the service holds, [id, name, namespace];
\* creates: the create_experiment calls it has served, in order;
\* jobs: the recurring runs it holds, [id, name, experiment_id, ...];
\* created: the number of recurring runs created so far;
\* run: the workflow it executes, with the status of every unit
EmptyServer ==
    [experiments |-> {}, creates |-> <<>>, jobs |-> {}, created |-> 0, run |-> NoRun]

\* Text that is compared by its characters is a sequence of them; a name inside
\* a message is one element.
NO_EXPERIMENT_IS_FOUND ==
    <<"N", "o", " ", "e", "x", "p", "e", "r", "i", "m", "e", "n", "t", " ",
      "i", "s", " ", "f", "o", "u", "n", "d">>

\* str.startswith
StartsWith(text, prefix) ==
    Len(text) >= Len(prefix) /\ SubSeq(text, 1, Len(prefix)) = prefix

\* the message of kfp's get_experiment when no experiment has the name
NotFoundMessage(name) ==
    NO_EXPERIMENT_IS_FOUND
        \o <<" ", "w", "i", "t", "h", " ", "n", "a", "m", "e", " ", name, ".">>

\* the other ways a lookup fails: a ValueError with another message (one shorter
\* than the prefix, one that holds it further on, one in another case), and an
\* error of the API, which is no ValueError whatever its message
LookupFailures(name) ==
    {Raise("ValueError", SubSeq(NO_EXPERIMENT_IS_FOUND, 1, 13)),
     Raise("ValueError", <<"E", "r", "r", "o", "r", ":", " ">> \o NotFoundMessage(name)),
     Raise("ValueError", <<"n">> \o Tail(NotFoundMessage(name))),
     Raise("ApiException", NotFoundMessage(name))}

Matching(srv, name, namespace) ==
    {e \in srv.experiments : e.name = name /\ e.namespace = namespace}

\* client.get_experiment(experiment_name=..., namespace=...): what it may answer
Client_get_experiment(srv, name, namespace) ==
    (IF Matching(srv, name, namespace) # {}
     THEN {Return(e) : e \in Matching(srv, name, namespace)}
     ELSE {Raise("ValueError", NotFoundMessage(name))})
        \cup LookupFailures(name)

\* client.create_experiment(name, namespace=...): the service and the experiment
Client_create_experiment(srv, name, namespace) ==
    LET experiment == [id |-> "experiment-" \o ToString(Len(srv.creates) + 1),
                       name |-> name, namespace |-> namespace]
    IN  [server |-> [srv EXCEPT !.experiments = srv.experiments \cup {experiment},
                                !.creates = Append(srv.creates, experiment)],
         experiment |-> experiment]

\* the recurring runs of an experiment
JobsOf(srv, experiment_id) == {job \in srv.jobs : job.experiment_id = experiment_id}

\* the jobs of a set in the order of their creation
RECURSIVE ByCreation(_)
ByCreation(jobs) ==
    IF jobs = {} THEN <<>>
    ELSE LET first == CHOOSE job \in jobs : \A other \in jobs : job.id <= other.id
         IN  <<first>> \o ByCreation(jobs \ {first})

\* client.list_recurring_runs(experiment_id=...): what it may answer. One page of
\* the experiment's recurring runs; jobs is None when there is none
Client_list_recurring_runs(srv, experiment_id) ==
    LET all == JobsOf(srv, experiment_id)
        size == IF Cardinality(all) < PageSize THEN Cardinality(all) ELSE PageSize
    IN  IF all = {}
        THEN {[jobs |-> PyNone]}
        ELSE {[jobs |-> PyList(ByCreation(page))] :
                page \in {p \in SUBSET all : Cardinality(p) = size}}

\* client.jobs.delete_job(id)
Client_delete_job(srv, id) ==
    [srv EXCEPT !.jobs = {job \in srv.jobs : job.id # id}]

\* client.create_recurring_run(experiment_id, job_name, cron_expression=...,
\* pipeline_id=..., params=...): the service and the recurring run
Client_create_recurring_run(srv, experiment_id, job_name, cron, pipeline_id, params) ==
    LET job == [id |-> srv.created + 1,
                name |-> job_name,
                experiment_id |-> experiment_id,
                cron_expression |-> cron,
                pipeline_id |-> pipeline_id,
                params |-> params]
    IN  [server |-> [srv EXCEPT !.jobs = srv.jobs \cup {job},
                                !.created = srv.created + 1],
         job |-> job]

\* client.get_pipeline_id(name): the id under which the pipeline was uploaded
Client_get_pipeline_id(name) == "id of " \o name

\* The platform's execution of a submitted topology. A unit is started once the
\* units it depends on have succeeded; an exit handler is started once every
\* other unit has finished, whatever the outcome.
Finished == {"succeeded", "failed"}

CanStart(run, name) ==
    /\ run.status[name] = "pending"
    /\ IF name \in run.topology.exit_handlers
       THEN \A other \in (DOMAIN run.status) \ {name} : run.status[other] \in Finished
       ELSE \A edge \in run.topology.edges :
                edge[2] = name => run.status[edge[1]] = "succeeded"

-----------------------------------------------------------------------------
(* class KubeflowClient *)

\* the parameters of kfp.Client: the session cookie, else the token, else none
ClientParams(token, dex_authservice_session) ==
    IF dex_authservice_session # PyNone
    THEN [cookies |-> "authservice_session=" \o dex_authservice_session.s]
    ELSE IF token # PyNone
    THEN [existing_token |-> token.s]
    ELSE EmptyDict

\* the if / elif / else over config.run_config.node_merge_strategy, which is
\* read anew for every comparison and for the message (the message without the
\* quotes the code puts around the key)
SelectGenerator(run_config) ==
    LET first == RunConfig_node_merge_strategy(run_config)
        second == RunConfig_node_merge_strategy(run_config)
        third == RunConfig_node_merge_strategy(run_config)
    IN  Then(first,
            IF first.val = PyStr("none")
            THEN Return("PodPerNodePipelineGenerator")
            ELSE Then(second,
                    IF second.val = PyStr("full")
                    THEN Return("OnePodPipelineGenerator")
                    ELSE Then(third,
                            Raise("Exception",
                                  "Invalid node_merge_strategy: " \o third.val.s))))

\* KubeflowClient(config, project_name, context), the answers of the
\* AuthHandler given
KubeflowClient_init(cfg, project_name, token, dex_authservice_session) ==
    LET host == PluginConfig_host(cfg)
        run_config == PluginConfig_run_config(cfg)
        generator == SelectGenerator(run_config.val)
    IN  Then(host, Then(run_config, Then(generator,
            Return([host |-> host.val,
                    client_params |-> ClientParams(token, dex_authservice_session),
                    project_name |-> project_name,
                    pipeline_description |-> RunConfig_description(run_config.val),
                    generator |-> generator.val]))))

\* mutant: every ValueError of the lookup counts as "not found"
ensure_experiment_exists_AnyValueError(srv, lookup, name, namespace) ==
    IF lookup.kind = "return"
    THEN [server |-> srv, outcome |-> Return(lookup.val.id)]
    ELSE IF lookup.type # "ValueError"
    THEN [server |-> srv, outcome |-> lookup]
    ELSE LET created == Client_create_experiment(srv, name, namespace)
         IN  [server |-> created.server, outcome |-> Return(created.experiment.id)]

\* _ensure_experiment_exists, given what get_experiment answered: the service
\* afterwards and the id returned or the exception raised
ensure_experiment_exists(srv, lookup, name, namespace) ==
    IF lookup.kind = "return"
    THEN [server |-> srv, outcome |-> Return(lookup.val.id)]
    ELSE IF lookup.type # "ValueError"
    THEN [server |-> srv, outcome |-> lookup]
    ELSE IF ~StartsWith(lookup.msg, NO_EXPERIMENT_IS_FOUND)
    THEN [server |-> srv, outcome |-> lookup]
    ELSE LET created == Client_create_experiment(srv, name, namespace)
         IN  [server |-> created.server, outcome |-> Return(created.experiment.id)]

\* get_full_pipeline_name; the names of the model are shorter than the 100
\* characters the code cuts the name to
get_full_pipeline_name(project_name, pipeline_name, env) ==
    "[" \o project_name \o "] " \o pipeline_name \o " (env: " \o env \o ")"

\* run_name.format(**parameters): the template is a sequence of texts and of
\* fields {name}; a field that is no parameter is a KeyError
RECURSIVE str_format(_, _)
str_format(template, parameters) ==
    IF template = <<>> THEN Return("")
    ELSE LET part == Head(template)
             rest == str_format(Tail(template), parameters)
         IN  IF "field" \in DOMAIN part
             THEN IF part.field \in DOMAIN parameters
                  THEN Then(rest, Return(parameters[part.field].s \o rest.val))
                  ELSE Raise("KeyError", part.field)
             ELSE Then(rest, Return(part.text \o rest.val))

RECURSIVE DeleteJobs(_, _)
DeleteJobs(srv, jobs) ==
    IF jobs = <<>> THEN srv
    ELSE DeleteJobs(Client_delete_job(srv, Head(jobs).id), Tail(jobs))

\* _disable_runs, the listing given: the service, and the delete_job calls made
disable_runs(srv, runs, run_name) ==
    IF runs.jobs = PyNone
    THEN [server |-> srv, calls |-> <<>>]
    ELSE LET IsMine(job) == job.name = run_name
             my_runs == SelectSeq(runs.jobs.items, IsMine)
         IN  [server |-> DeleteJobs(srv, my_runs),
              calls |-> [i \in 1..Len(my_runs) |->
                            [op |-> "delete_job", id |-> my_runs[i].id]]]

\* schedule, the answer of get_experiment given: what it may do, the listing
\* being the service's choice. calls: the calls that change the service, in order
schedule(srv, lookup, project_name, pipeline, experiment_name, experiment_namespace, cron_expression, run_name, parameters, env) ==
    LET ensured == ensure_experiment_exists(
                        srv, lookup, experiment_name, experiment_namespace)
        experiment_id == ensured.outcome.val
        pipeline_id == Client_get_pipeline_id(
                            get_full_pipeline_name(project_name, pipeline, env))
        formatted_run_name == str_format(run_name, parameters)
        ensure_call == [op |-> "_ensure_experiment_exists", id |-> experiment_id]
    IN  IF ensured.outcome.kind = "raise"
        THEN {[server |-> ensured.server, outcome |-> ensured.outcome, calls |-> <<>>]}
        ELSE IF formatted_run_name.kind = "raise"
        THEN {[server |-> ensured.server,
               outcome |-> formatted_run_name,
               calls |-> <<ensure_call>>]}
        ELSE {LET disabled == disable_runs(ensured.server, runs, formatted_run_name.val)
                  created == Client_create_recurring_run(
                                disabled.server, experiment_id, formatted_run_name.val,
                                cron_expression, pipeline_id, parameters)
              IN  [server |-> created.server,
                   outcome |-> Return(PyNone),
                   calls |-> <<ensure_call>> \o disabled.calls \o
                             <<[op |-> "create_recurring_run", id |-> created.job.id]>>] :
                runs \in Client_list_recurring_runs(ensured.server, experiment_id)}

-----------------------------------------------------------------------------
(* Calls *)

NoCall == [op |-> "none"]

\* config.run_config.resources.get_for(node_name)
GetResources(names) ==
    \E node_name \in names :
        /\ call' = [op |-> "resources.get_for", node_name |-> node_name]
        /\ outcome' =
            LET run_config == PluginConfig_run_config(config)
            IN  Then(run_config,
                    Return(NodeResources_get_for(
                            RunConfig_resources(run_config.val), node_name)))
        /\ UNCHANGED <<config, context, server>>

\* config.run_config.resources.is_set_for(node_name)
IsSetResources(names) ==
    \E node_name \in names :
        /\ call' = [op |-> "resources.is_set_for", node_name |-> node_name]
        /\ outcome' =
            LET run_config == PluginConfig_run_config(config)
            IN  Then(run_config,
                    Return(NodeResources_is_set_for(
                            RunConfig_resources(run_config.val), node_name)))
        /\ UNCHANGED <<config, context, server>>

\* config.run_config.retry_policy.get_for(node_name)
GetRetry(names) ==
    \E node_name \in names :
        /\ call' = [op |-> "retry_policy.get_for", node_name |-> node_name]
        /\ outcome' =
            LET run_config == PluginConfig_run_config(config)
            IN  Then(run_config,
                    RetryPolicy_get_for(
                            RunConfig_retry_policy(run_config.val), node_name))
        /\ UNCHANGED <<config, context, server>>

\* config.run_config.retry_policy.is_set_for(node_name)
IsSetRetry(names) ==
    \E node_name \in names :
        /\ call' = [op |-> "retry_policy.is_set_for", node_name |-> node_name]
        /\ outcome' =
            LET run_config == PluginConfig_run_config(config)
            IN  Then(run_config,
                    RetryPolicy_is_set_for(
                            RunConfig_retry_policy(run_config.val), node_name))
        /\ UNCHANGED <<config, context, server>>

\* OnePodPipelineGenerator(config, ..., context).generate_pipeline(...)()
GeneratePipeline(images, policies) ==
    \E pipeline \in DOMAIN context.pipelines, image \in images,
       image_pull_policy \in policies :
        /\ call' = [op |-> "generate_pipeline", pipeline |-> pipeline,
                    image |-> image, image_pull_policy |-> image_pull_policy]
        /\ outcome' = generate_pipeline(
                            config, context, pipeline, image, image_pull_policy)
        /\ UNCHANGED <<config, context, server>>

\* the names policies are asked for: the pipeline's and its nodes'
PolicyNames == DOMAIN context.pipelines \cup NodeNames(context, "pipeline")

PluginFields == {"host", "run_config", "project_id", "region"}

RunFields ==
    {"image", "image_pull_policy", "root", "experiment_name", "run_name",
     "scheduled_run_name", "description", "on_exit_pipeline", "node_merge_strategy"}

\* config.<field>
PluginConfig_read(raw, field) ==
    CASE field = "host" -> PluginConfig_host(raw)
      [] field = "run_config" -> PluginConfig_run_config(raw)
      [] field = "project_id" -> PluginConfig_project_id(raw)
      [] field = "region" -> PluginConfig_region(raw)

\* run_config.<field>
RunConfig_read(raw, field) ==
    CASE field = "image" -> RunConfig_image(raw)
      [] field = "image_pull_policy" -> Return(RunConfig_image_pull_policy(raw))
      [] field = "root" -> RunConfig_root(raw)
      [] field = "experiment_name" -> RunConfig_experiment_name(raw)
      [] field = "run_name" -> RunConfig_run_name(raw)
      [] field = "scheduled_run_name" -> RunConfig_scheduled_run_name(raw)
      [] field = "description" -> Return(RunConfig_description(raw))
      [] field = "on_exit_pipeline" -> Return(RunConfig_on_exit_pipeline(raw))
      [] field = "node_merge_strategy" -> RunConfig_node_merge_strategy(raw)

\* config.<field>
ReadPluginConfig ==
    \E field \in PluginFields :
        /\ call' = [op |-> "config", field |-> field]
        /\ outcome' = PluginConfig_read(config, field)
        /\ UNCHANGED <<config, context, server>>

\* config.run_config.<field>
ReadRunConfig ==
    \E field \in RunFields :
        /\ call' = [op |-> "config.run_config", field |-> field]
        /\ outcome' =
            LET run_config == PluginConfig_run_config(config)
            IN  Then(run_config, RunConfig_read(run_config.val, field))
        /\ UNCHANGED <<config, context, server>>

ExperimentNames == {"exp" \o ToString(i) : i \in 1..MaxExperiments}

Namespaces == {"kubeflow", "team-a"}

\* client._ensure_experiment_exists(experiment_name, experiment_namespace)
EnsureExperimentExists ==
    \E name \in ExperimentNames, namespace \in Namespaces :
        \E lookup \in Client_get_experiment(server, name, namespace) :
            LET done == ensure_experiment_exists(server, lookup, name, namespace)
            IN  /\ call' = [op |-> "_ensure_experiment_exists",
                            experiment_name |-> name,
                            experiment_namespace |-> namespace,
                            lookup |-> lookup]
                /\ outcome' = done.outcome
                /\ server' = done.server
                /\ UNCHANGED <<config, context>>

\* KubeflowClient(config, project_name, context)
ConstructClient(project_names, tokens, sessions) ==
    \E project_name \in project_names, token \in tokens, session \in sessions :
        /\ call' = [op |-> "KubeflowClient",
                    project_name |-> project_name,
                    token |-> token,
                    dex_authservice_session |-> session]
        /\ outcome' = KubeflowClient_init(config, project_name, token, session)
        /\ UNCHANGED <<config, context, server>>

\* client.schedule(pipeline, experiment_name, experiment_namespace,
\* cron_expression, run_name, parameters, env)
Schedule(experiment_names, run_names, parameter_sets) ==
    \E experiment_name \in experiment_names, run_name \in run_names,
       parameters \in parameter_sets :
        \E lookup \in Client_get_experiment(server, experiment_name, "kubeflow") :
            \E done \in schedule(server, lookup, "my-awesome-project", "pipeline",
                                  experiment_name, "kubeflow", "0 0 * * *", run_name,
                                  parameters, context.env) :
                /\ server.created < MaxJobs
                /\ call' = [op |-> "schedule",
                            experiment_name |-> experiment_name,
                            run_name |-> run_name,
                            parameters |-> parameters,
                            lookup |-> lookup,
                            calls |-> done.calls]
                /\ outcome' = done.outcome
                /\ server' = done.server
                /\ UNCHANGED <<config, context>>

\* the topology generated last is handed to the platform
SubmitRun ==
    /\ call.op = "generate_pipeline"
    /\ outcome.kind = "return"
    /\ server.run = NoRun
    /\ server' = [server EXCEPT !.run =
                    [submitted |-> TRUE,
                     topology |-> outcome.val,
                     status |-> [name \in DOMAIN outcome.val.ops |-> "pending"]]]
    /\ UNCHANGED <<config, context, call, outcome>>

\* the platform starts a unit that may start
StartUnit ==
    /\ server.run # NoRun
    /\ \E name \in DOMAIN server.run.status :
            /\ CanStart(server.run, name)
            /\ server' = [server EXCEPT !.run.status[name] = "running"]
    /\ UNCHANGED <<config, context, call, outcome>>

\* a running unit ends, in success or in failure
FinishUnit ==
    /\ server.run # NoRun
    /\ \E name \in DOMAIN server.run.status, result \in Finished :
            /\ server.run.status[name] = "running"
            /\ server' = [server EXCEPT !.run.status[name] = result]
    /\ UNCHANGED <<config, context, call, outcome>>

-----------------------------------------------------------------------------
(* The client against the service *)

InitClient ==
    /\ config = TestConfig(EmptyDict)
    /\ context = TestContext(MaxNodes)
    /\ call = NoCall
    /\ outcome = Return(PyNone)
    /\ server = EmptyServer

NextClient == EnsureExperimentExists

SpecClient == InitClient /\ [][NextClient]_vars

-----------------------------------------------------------------------------
(* Configuration access: the keys present vary *)

RunNames == {PyStr("run" \o ToString(i)) : i \in 1..MaxNames}

StrategyValues ==
    {PyStr("none"), PyStr("full"), PyStr("partial"), PyStr("None"), PyNone, PyInt(1)}

AccessValues(key) ==
    CASE key = "host" -> {PyStr("http://unittest")}
      [] key = "project_id" -> {PyStr("my-project")}
      [] key = "region" -> {PyStr("europe-west1")}
      [] key = "image" -> {PyStr("unittest-image")}
      [] key = "root" -> {PyStr("/home/kedro")}
      [] key = "experiment_name" -> {PyStr("my-awesome-project")}
      [] key = "run_name" -> RunNames
      [] key = "scheduled_run_name" -> RunNames
      [] key = "node_merge_strategy" -> StrategyValues

\* the dicts over some of the keys, each key with one of its values
DictsOver(keys) ==
    UNION {{d \in [S -> UNION {AccessValues(k) : k \in keys}] :
                \A k \in S : d[k] \in AccessValues(k)} : S \in SUBSET keys}

AccessRunConfigs ==
    DictsOver({"image", "root", "experiment_name", "run_name",
               "scheduled_run_name", "node_merge_strategy"})

AccessConfigs ==
    {plugin @@ run :
        plugin \in DictsOver({"host", "project_id", "region"}),
        run \in {EmptyDict} \cup {[run_config |-> rc] : rc \in AccessRunConfigs}}

InitAccess ==
    /\ config \in AccessConfigs
    /\ context = TestContext(MaxNodes)
    /\ call = NoCall
    /\ outcome = Return(PyNone)
    /\ server = EmptyServer

NextAccess == ReadPluginConfig \/ ReadRunConfig

SpecAccess == InitAccess /\ [][NextAccess]_vars

-----------------------------------------------------------------------------
(* Resource policies: the resources block varies *)

ResourceNames == {"cpu", "memory"}

Quantities == {PyStr(ToString(q) \o "00m") : q \in 1..MaxQuantity}

ResourceEntries == UNION {[S -> Quantities] : S \in SUBSET ResourceNames}

ResourceBlocks ==
    UNION {[K -> ResourceEntries] : K \in SUBSET {"__default__", "pipeline", "node1"}}

\* the resources of test_should_add_resources_spec
TestResourceBlock ==
    [__default__ |-> [cpu |-> PyStr("100m"), memory |-> PyStr("8Gi")],
     node1 |-> [cpu |-> PyStr("400m"), memory |-> PyStr("64Gi")]]

InitResources ==
    /\ config \in {TestConfig(EmptyDict), TestConfig([resources |-> TestResourceBlock])}
                    \cup {TestConfig([resources |-> r]) : r \in ResourceBlocks}
    /\ context = TestContext(MaxNodes)
    /\ call = NoCall
    /\ outcome = Return(PyNone)
    /\ server = EmptyServer

NextResources ==
    \/ GetResources(PolicyNames)
    \/ IsSetResources(PolicyNames)
    \/ GeneratePipeline({"unittest-image"}, {"Always"})

SpecResources == InitResources /\ [][NextResources]_vars

-----------------------------------------------------------------------------
(* Retry policies: the retry_policy block varies *)

NumRetriesValues ==
    {PyInt(n) : n \in 0..MaxRetries}
        \cup {PyStr(ToString(MaxRetries)), PyFloat(2 * MaxRetries + 1), PyStr("many")}

BackoffFactorValues == {PyInt(2), PyFloat(3), PyStr("1.5"), PyStr("fast")}

BackoffDurationValues == {PyStr("60s"), PyInt(60)}

RetryFieldValues(field) ==
    CASE field = "num_retries" -> NumRetriesValues
      [] field = "backoff_factor" -> BackoffFactorValues
      [] field = "backoff_duration" -> BackoffDurationValues

RetryFields == {"num_retries", "backoff_factor", "backoff_duration"}

RetryEntries ==
    UNION {{e \in [S -> NumRetriesValues \cup BackoffFactorValues
                            \cup BackoffDurationValues] :
                \A f \in S : e[f] \in RetryFieldValues(f)} : S \in SUBSET RetryFields}

RetryBlocks == UNION {[K -> RetryEntries] : K \in SUBSET {"__default__", "pipeline"}}

\* the retry policy of test_should_add_retry_policy
TestRetryBlock ==
    [__default__ |-> [num_retries |-> PyInt(4), backoff_duration |-> PyStr("60s"),
                      backoff_factor |-> PyInt(2)],
     node1 |-> [num_retries |-> PyInt(100), backoff_duration |-> PyStr("5m"),
                backoff_factor |-> PyInt(1)]]

InitRetry ==
    /\ config \in {TestConfig(EmptyDict), TestConfig([retry_policy |-> TestRetryBlock])}
                    \cup {TestConfig([retry_policy |-> r]) : r \in RetryBlocks}
                    \cup {TestConfig([retry_policy |-> [__default__ |-> e],
                                      on_exit_pipeline |-> PyStr("notify_via_slack")]) :
                            e \in RetryEntries}
    /\ context = TestContext(MaxNodes)
    /\ call = NoCall
    /\ outcome = Return(PyNone)
    /\ server = EmptyServer

NextRetry ==
    \/ GetRetry(PolicyNames)
    \/ IsSetRetry(PolicyNames)
    \/ GeneratePipeline({"unittest-image"}, {"Always"})

SpecRetry == InitRetry /\ [][NextRetry]_vars

-----------------------------------------------------------------------------
(* Generation: the pipeline, the image, the pull policy and the exit pipeline vary *)

GenerateValues(key) ==
    CASE key = "on_exit_pipeline" -> {PyStr("notify_via_slack"), PyNone}
      [] key = "description" -> {PyStr("DESC")}
      [] key = "resources" -> {TestResourceBlock}
      [] key = "retry_policy" -> {TestRetryBlock}

GenerateKeys == {"on_exit_pipeline", "description", "resources", "retry_policy"}

GenerateRunConfigs ==
    UNION {{d \in [S -> UNION {GenerateValues(k) : k \in GenerateKeys}] :
                \A k \in S : d[k] \in GenerateValues(k)} : S \in SUBSET GenerateKeys}

Images == {"unittest-image", "registry/project:latest"}

PullPolicies == {"Never", "Always", "IfNotPresent"}

InitGenerate ==
    /\ config \in {TestConfig(rc) : rc \in GenerateRunConfigs}
    /\ context \in {TestContext(n) : n \in 1..MaxNodes}
    /\ call = NoCall
    /\ outcome = Return(PyNone)
    /\ server = EmptyServer

NextGenerate == GeneratePipeline(Images, PullPolicies)

SpecGenerate == InitGenerate /\ [][NextGenerate]_vars

-----------------------------------------------------------------------------
(* The exit handler: the exit pipeline varies and the topology is executed *)

ExitPipelines == {PyStr("notify_via_slack"), PyStr("cleanup"), PyNone}

ExitRunConfigs ==
    {exit @@ resources @@ retry :
        exit \in {EmptyDict} \cup {[on_exit_pipeline |-> e] : e \in ExitPipelines},
        resources \in {EmptyDict, [resources |-> TestResourceBlock]},
        retry \in {EmptyDict, [retry_policy |-> TestRetryBlock]}}

InitExit ==
    /\ config \in {TestConfig(rc) : rc \in ExitRunConfigs}
    /\ context \in {TestContext(n) : n \in 1..MaxNodes}
    /\ call = NoCall
    /\ outcome = Return(PyNone)
    /\ server = EmptyServer

NextExit ==
    \/ GeneratePipeline({"unittest-image"}, {"Always"})
    \/ SubmitRun
    \/ StartUnit
    \/ FinishUnit

\* the platform starts every unit that may start, and every container ends
SpecExit ==
    InitExit /\ [][NextExit]_vars /\ WF_vars(StartUnit) /\ WF_vars(FinishUnit)

-----------------------------------------------------------------------------
(* The artifacts: the catalog and the exposure of outputs vary *)

\* "data/02_intermediate/b.csv" is the path of B in the catalog of the tests
FilePath(name) ==
    IF name = "B" THEN "data/02_intermediate/b.csv" ELSE "data/" \o name \o ".csv"

\* a dataset is absent from the catalog, kept in memory, or kept in a file
Descriptors(name) ==
    {EmptyDict,
     name :> [type |-> "MemoryDataSet"],
     name :> [type |-> "pandas.CSVDataSet", filepath |-> FilePath(name)]}

RECURSIVE Catalogs(_)
Catalogs(n) ==
    IF n = 0 THEN {EmptyDict}
    ELSE {c @@ d : c \in Catalogs(n - 1), d \in Descriptors(DataSetName(n))}

ExposureValues == {PyBool(TRUE), PyBool(FALSE), PyNone, PyStr("False")}

ArtifactRunConfigs ==
    {EmptyDict} \cup
    {[store_kedro_outputs_as_kfp_artifacts |-> v] : v \in ExposureValues}

InitArtifacts ==
    /\ config \in {TestConfig(rc) : rc \in ArtifactRunConfigs}
    /\ context \in {ContextWith(n, <<>>, catalog) :
                        n \in 1..MaxNodes, catalog \in Catalogs(MaxNodes + 1)}
    /\ call = NoCall
    /\ outcome = Return(PyNone)
    /\ server = EmptyServer

NextArtifacts == GeneratePipeline({"unittest-image"}, {"IfNotPresent"})

SpecArtifacts == InitArtifacts /\ [][NextArtifacts]_vars

-----------------------------------------------------------------------------
(* The parameters of the pipeline vary *)

ParamNames == {"param" \o ToString(i) : i \in 1..MaxParams}

\* 0.5, 42, two dates, and a text
ParamValues ==
    {PyFloat(1), PyInt(42), PyDate(2022, 2, 24), PyDate(2021, 11, 3), PyStr("daily")}

\* the parameters of a context: distinct names in any order, each with a value
RECURSIVE ParamsOver(_)
ParamsOver(names) ==
    {<<>>} \cup
    UNION {{<<[name |-> n, value |-> v]>> \o rest :
                v \in ParamValues, rest \in ParamsOver(names \ {n})} : n \in names}

InitParams ==
    /\ config \in {TestConfig(rc) :
                        rc \in {EmptyDict, [on_exit_pipeline |-> PyStr("notify_via_slack")]}}
    /\ context \in {ContextWith(1, params, EmptyDict) : params \in ParamsOver(ParamNames)}
    /\ call = NoCall
    /\ outcome = Return(PyNone)
    /\ server = EmptyServer

NextParams == GeneratePipeline({"unittest-image"}, {"Always"})

SpecParams == InitParams /\ [][NextParams]_vars

-----------------------------------------------------------------------------
(* The construction of the client: host, description and strategy vary *)

ConstructRunConfigs ==
    {strategy @@ description :
        strategy \in {EmptyDict} \cup
                        {[node_merge_strategy |-> v] : v \in StrategyValues},
        description \in {EmptyDict, [description |-> PyStr("My pipeline")]}}

ConstructConfigs ==
    {plugin @@ run :
        plugin \in {EmptyDict, [host |-> PyStr("http://unittest")]},
        run \in {EmptyDict} \cup {[run_config |-> rc] : rc \in ConstructRunConfigs}}

Tokens == {PyNone, PyStr("id-token")}

Sessions == {PyNone, PyStr("session")}

InitConstruct ==
    /\ config \in ConstructConfigs
    /\ context = TestContext(MaxNodes)
    /\ call = NoCall
    /\ outcome = Return(PyNone)
    /\ server = EmptyServer

NextConstruct == ConstructClient({"my-awesome-project"}, Tokens, Sessions)

SpecConstruct == InitConstruct /\ [][NextConstruct]_vars

-----------------------------------------------------------------------------
(* The scheduling of recurring runs *)

\* "daily" and "run-{env}"
RunNameTemplates ==
    {<<[text |-> "daily"]>>, <<[text |-> "run-"], [field |-> "env"]>>}

ParameterSets == {EmptyDict, [env |-> PyStr("dev")], [env |-> PyStr("prod")]}

InitSchedule ==
    /\ config = TestConfig(EmptyDict)
    /\ context = TestContext(1)
    /\ call = NoCall
    /\ outcome = Return(PyNone)
    /\ server = EmptyServer

NextSchedule == Schedule(ExperimentNames, RunNameTemplates, ParameterSets)

SpecSchedule == InitSchedule /\ [][NextSchedule]_vars

-----------------------------------------------------------------------------
(* Properties of the resource policies *)

\* the configured blocks, read off the configuration itself
BlockOf(key) ==
    IF "run_config" \in DOMAIN config /\ key \in DOMAIN config.run_config
    THEN config.run_config[key]
    ELSE EmptyDict

EntryOf(block, name) == IF name \in DOMAIN block THEN block[name] ELSE EmptyDict

\* C1: get_for(node) is the default-then-override shallow merge: every key of
\* the node's entry has the node's value, every key only in __default__ has the
\* default's value, there are no other keys, and with neither entry the result
\* is the empty mapping.
C1_GetForIsDefaultThenOverride ==
    call.op = "resources.get_for" =>
        LET block == BlockOf("resources")
            d == EntryOf(block, "__default__")
            n == EntryOf(block, call.node_name)
        IN  /\ outcome.kind = "return"
            /\ DOMAIN outcome.val = (DOMAIN d) \cup (DOMAIN n)
            /\ \A k \in DOMAIN n : outcome.val[k] = n[k]
            /\ \A k \in (DOMAIN d) \ (DOMAIN n) : outcome.val[k] = d[k]
            /\ ({"__default__", call.node_name} \cap DOMAIN block = {}
                    => outcome.val = EmptyDict)

\* node1 overrides cpu and inherits memory from __default__
C1_Witness ==
    /\ call.op = "resources.get_for"
    /\ call.node_name = "node1"
    /\ {"__default__", "node1"} \subseteq DOMAIN BlockOf("resources")
    /\ DOMAIN BlockOf("resources")["__default__"] = {"cpu", "memory"}
    /\ DOMAIN BlockOf("resources")["node1"] = {"cpu"}
    /\ BlockOf("resources")["node1"]["cpu"] # BlockOf("resources")["__default__"]["cpu"]
    /\ outcome.val["cpu"] = BlockOf("resources")["node1"]["cpu"]
    /\ outcome.val["memory"] = BlockOf("resources")["__default__"]["memory"]

\* C2: is_set_for(name) is true iff the merged policy for the name has a key;
\* with neither a __default__ entry nor an entry for the unit's name it is false
\* and the unit produced has no resource spec at all.
C2_IsSetIffMergedNonEmpty ==
    LET block == BlockOf("resources")
    IN  /\ call.op = "resources.is_set_for" =>
                /\ outcome.kind = "return"
                /\ outcome.val =
                        (DOMAIN EntryOf(block, "__default__")
                            \cup DOMAIN EntryOf(block, call.node_name) # {})
                /\ ({"__default__", call.node_name} \cap DOMAIN block = {}
                        => outcome.val = FALSE)
        /\ (call.op = "generate_pipeline"
                /\ {"__default__", call.pipeline} \cap DOMAIN block = {}) =>
                /\ outcome.kind = "return"
                /\ outcome.val.ops[call.pipeline].resources = PyNone

\* only node1 has an entry: the unit of the pipeline has no resource spec
C2_Witness ==
    /\ call.op = "generate_pipeline"
    /\ DOMAIN BlockOf("resources") = {"node1"}
    /\ BlockOf("resources")["node1"] # EmptyDict
    /\ outcome.val.ops[call.pipeline].resources = PyNone

\* the configuration without the resources entry of one name
WithoutResourcesOf(name) ==
    LET block == BlockOf("resources")
        rest == [k \in (DOMAIN block) \ {name} |-> block[k]]
    IN  IF name \in DOMAIN block
        THEN [config EXCEPT !.run_config = [config.run_config EXCEPT !.resources = rest]]
        ELSE config

\* C3: under the merged strategy the unit's resources are resolved by the
\* pipeline's name: the entries of the pipeline's nodes change nothing, and
\* when the policy is set, limits and requests are both the __default__ entry
\* overridden by the pipeline's entry.
C3_MergedResourcesKeyedByPipeline ==
    call.op = "generate_pipeline" =>
        LET block == BlockOf("resources")
            d == EntryOf(block, "__default__")
            p == EntryOf(block, call.pipeline)
            merged == [k \in (DOMAIN d) \cup (DOMAIN p) |->
                            IF k \in DOMAIN p THEN p[k] ELSE d[k]]
            unit == outcome.val.ops[call.pipeline]
        IN  /\ outcome.kind = "return"
            /\ (merged # EmptyDict =>
                    unit.resources = [limits |-> merged, requests |-> merged])
            /\ \A n \in NodeNames(context, call.pipeline) :
                    generate_pipeline(
                        WithoutResourcesOf(n), context, call.pipeline, call.image,
                        call.image_pull_policy) = outcome

\* node1 has its own cpu, yet the unit has the pipeline's cpu and the default's memory
C3_Witness ==
    /\ call.op = "generate_pipeline"
    /\ DOMAIN BlockOf("resources") = {"__default__", "pipeline", "node1"}
    /\ DOMAIN BlockOf("resources")["__default__"] = {"cpu", "memory"}
    /\ DOMAIN BlockOf("resources")["pipeline"] = {"cpu"}
    /\ BlockOf("resources")["pipeline"]["cpu"] # BlockOf("resources")["__default__"]["cpu"]
    /\ BlockOf("resources")["node1"] = BlockOf("resources")["__default__"]
    /\ outcome.val.ops["pipeline"].resources.limits
            = ("cpu" :> BlockOf("resources")["pipeline"]["cpu"])
                @@ ("memory" :> BlockOf("resources")["__default__"]["memory"])
    /\ outcome.val.ops["pipeline"].resources.requests
            = outcome.val.ops["pipeline"].resources.limits

-----------------------------------------------------------------------------
(* Properties of the retry policies *)

\* the text of a decimal literal int() reads
IsNatText(s) == \E n \in 0..MaxLiteral : s = ToString(n)

\* the values int() and float() accept
IntLike(v) == v.t \in {"int", "float", "bool"} \/ (v.t = "str" /\ IsNatText(v.s))

FloatLike(v) ==
    \/ v.t \in {"int", "float", "bool"}
    \/ v.t = "str" /\ \E n \in 0..MaxLiteral :
            v.s \in {ToString(n), ToString(n) \o ".0", ToString(n) \o ".5"}

\* r is the integer that v is coerced to
IsIntOf(r, v) ==
    /\ r.t = "int"
    /\ v.t = "int" => r = v
    /\ v.t = "str" => ToString(r.i) = v.s
    /\ v.t = "float" => 2 * r.i <= v.h /\ v.h < 2 * r.i + 2

\* r is the float that v is coerced to
IsFloatOf(r, v) ==
    /\ r.t = "float"
    /\ v.t = "int" => r.h = 2 * v.i
    /\ v.t = "float" => r = v
    /\ v.t = "str" => v.s \in {ToString(r.h \div 2) \o x :
                                x \in (IF r.h % 2 = 0 THEN {"", ".0"} ELSE {".5"})}

\* r is the string that v is coerced to
IsStrOf(r, v) ==
    /\ r.t = "str"
    /\ v.t = "str" => r = v
    /\ v.t = "int" => r.s = ToString(v.i)

\* the merged retry block of a name, read off the configuration itself
MergedRetry(name) ==
    LET d == EntryOf(BlockOf("retry_policy"), "__default__")
        n == EntryOf(BlockOf("retry_policy"), name)
    IN  [k \in (DOMAIN d) \cup (DOMAIN n) |-> IF k \in DOMAIN n THEN n[k] ELSE d[k]]

\* every configured value of the merged block can be coerced
Coercible(m) ==
    /\ "num_retries" \in DOMAIN m => IntLike(m["num_retries"])
    /\ "backoff_factor" \in DOMAIN m => FloatLike(m["backoff_factor"])

\* r is the retry policy that the merged block m normalizes to
IsNormalized(r, m) ==
    /\ IF "num_retries" \in DOMAIN m
       THEN IsIntOf(r["num_retries"], m["num_retries"])
       ELSE r["num_retries"] = PyInt(0)
    /\ IF "backoff_factor" \in DOMAIN m
       THEN IsFloatOf(r["backoff_factor"], m["backoff_factor"])
       ELSE r["backoff_factor"] = PyNone
    /\ IF "backoff_duration" \in DOMAIN m
       THEN IsStrOf(r["backoff_duration"], m["backoff_duration"])
       ELSE r["backoff_duration"] = PyNone

\* C4: RetryPolicy.get_for(node) normalizes the merged block on read: an empty
\* merge gives the empty mapping; otherwise num_retries is an integer (0 when
\* absent), backoff_factor a float when present and unset otherwise,
\* backoff_duration a string when present and unset otherwise. A missing field
\* never raises: get_for raises only for a configured value that is no number.
C4_RetryNormalizedOnRead ==
    call.op = "retry_policy.get_for" =>
        LET m == MergedRetry(call.node_name)
        IN  IF m = EmptyDict
            THEN outcome = Return(EmptyDict)
            ELSE /\ outcome.kind = "raise" <=> ~Coercible(m)
                 /\ outcome.kind = "return" =>
                        /\ DOMAIN outcome.val = RetryFields
                        /\ IsNormalized(outcome.val, m)

\* only a duration is configured, as a number: it is read as text, the retries
\* are 0 and the factor is unset
C4_Witness ==
    /\ call.op = "retry_policy.get_for"
    /\ MergedRetry(call.node_name) = [backoff_duration |-> PyInt(60)]
    /\ outcome = Return([num_retries |-> PyInt(0), backoff_factor |-> PyNone,
                          backoff_duration |-> PyStr("60")])

\* the retry fields of every unit produced, given the trigger of a retry spec
RetryOfUnits(trigger) ==
    call.op = "generate_pipeline" /\ outcome.kind = "return" =>
        \A name \in DOMAIN outcome.val.ops :
            LET unit == outcome.val.ops[name]
                m == MergedRetry(name)
            IN  IF m = EmptyDict
                THEN /\ unit.num_retries = PyInt(0)
                     /\ unit.retry_policy = PyNone
                     /\ unit.backoff_factor = PyNone
                     /\ unit.backoff_duration = PyNone
                     /\ unit.backoff_max_duration = PyNone
                ELSE /\ IsNormalized([num_retries |-> unit.num_retries,
                                      backoff_factor |-> unit.backoff_factor,
                                      backoff_duration |-> unit.backoff_duration], m)
                     /\ unit.retry_policy = PyStr(trigger)
                     /\ unit.backoff_max_duration = PyNone

\* generation fails only when the retry policy of a unit cannot be read
GenerationFailsOnlyOnRetryValues ==
    call.op = "generate_pipeline" /\ outcome.kind = "raise" =>
        \E name \in {call.pipeline, EXIT_HANDLER_NAME} : ~Coercible(MergedRetry(name))

\* C5 (as amended): a unit for whose name no retry policy resolves has no retry
\* spec: the trigger, the backoff factor, the backoff duration and the maximal
\* backoff duration are all unset. A unit for whose name one resolves carries the
\* resolved num_retries, backoff_duration and backoff_factor and the fixed
\* trigger, which is "Always" for every unit.
C5_RetryOfUnits == RetryOfUnits("Always") /\ GenerationFailsOnlyOnRetryValues

\* the policy of test_should_add_retry_policy on the unit of the pipeline
C5_Witness ==
    /\ call.op = "generate_pipeline"
    /\ BlockOf("retry_policy") = TestRetryBlock
    /\ outcome.kind = "return"
    /\ outcome.val.ops["pipeline"].num_retries = PyInt(4)
    /\ outcome.val.ops["pipeline"].retry_policy = PyStr("Always")
    /\ outcome.val.ops["pipeline"].backoff_factor = PyFloat(4)
    /\ outcome.val.ops["pipeline"].backoff_duration = PyStr("60s")

\* C5 as stated: the same, with "on failure" as the fixed trigger
C5_AsStated == RetryOfUnits("OnFailure")

-----------------------------------------------------------------------------
(* Properties of configuration access *)

RequiredPluginFields == {"host", "run_config", "project_id", "region"}

RequiredRunFields == {"image", "root", "experiment_name", "run_name"}

MissingConfiguration(key) ==
    [kind |-> "raise", type |-> "MissingConfigException",
     msg |-> "Missing required configuration: '" \o key \o "'."]

\* C6: reading a required field that is absent fails at that access with a
\* missing-configuration error that carries the dotted key (run_config.image);
\* no default and no None is returned. Reading a required field that is present
\* returns its value.
C6_RequiredFieldsFailFast ==
    /\ (call.op = "config" /\ call.field \in RequiredPluginFields) =>
            IF call.field \in DOMAIN config
            THEN outcome = [kind |-> "return", val |-> config[call.field]]
            ELSE outcome = MissingConfiguration(call.field)
    /\ (call.op = "config.run_config" /\ call.field \in RequiredRunFields) =>
            IF "run_config" \notin DOMAIN config
            THEN outcome = MissingConfiguration("run_config")
            ELSE IF call.field \in DOMAIN config.run_config
            THEN outcome = [kind |-> "return", val |-> config.run_config[call.field]]
            ELSE outcome = MissingConfiguration("run_config." \o call.field)

\* run_config has no image: reading it names run_config.image
C6_Witness ==
    /\ call = [op |-> "config.run_config", field |-> "image"]
    /\ "run_config" \in DOMAIN config
    /\ "image" \notin DOMAIN config.run_config
    /\ outcome.kind = "raise"
    /\ outcome.msg = "Missing required configuration: 'run_config.image'."

\* C7: scheduled_run_name is optional and defaults to run_name: whenever it is
\* configured, reading it returns the configured value, whether or not run_name
\* is configured; when it is absent, reading it returns run_name.
C7_ScheduledRunNameDefaultsToRunName ==
    (call = [op |-> "config.run_config", field |-> "scheduled_run_name"]
        /\ "run_config" \in DOMAIN config) =>
        LET rc == config.run_config
        IN  /\ "scheduled_run_name" \in DOMAIN rc =>
                    outcome = [kind |-> "return", val |-> rc["scheduled_run_name"]]
            /\ ("scheduled_run_name" \notin DOMAIN rc /\ "run_name" \in DOMAIN rc) =>
                    outcome = [kind |-> "return", val |-> rc["run_name"]]

\* the text an invalid strategy is named with
StrategyText(v) ==
    CASE v = PyNone -> "None"
      [] v = PyInt(1) -> "1"
      [] OTHER -> v.s

\* C8: reading node_merge_strategy returns none when the key is absent, the
\* configured value when it is none or full, and fails with an invalid-value
\* error that names the value otherwise; no other value is ever returned.
C8_MergeStrategyValidated ==
    (call = [op |-> "config.run_config", field |-> "node_merge_strategy"]
        /\ "run_config" \in DOMAIN config) =>
        LET rc == config.run_config
        IN  /\ "node_merge_strategy" \notin DOMAIN rc =>
                    outcome = [kind |-> "return", val |-> PyStr("none")]
            /\ "node_merge_strategy" \in DOMAIN rc =>
                    IF rc["node_merge_strategy"] \in {PyStr("none"), PyStr("full")}
                    THEN outcome = [kind |-> "return", val |-> rc["node_merge_strategy"]]
                    ELSE outcome =
                            [kind |-> "raise", type |-> "ValueError",
                             msg |-> "Invalid run_config.node_merge_strategy: "
                                        \o StrategyText(rc["node_merge_strategy"])]
            /\ outcome.kind = "return" => outcome.val \in {PyStr("none"), PyStr("full")}

\* the strategy "partial" is refused by name
C8_Witness ==
    /\ call = [op |-> "config.run_config", field |-> "node_merge_strategy"]
    /\ "run_config" \in DOMAIN config
    /\ "node_merge_strategy" \in DOMAIN config.run_config
    /\ config.run_config["node_merge_strategy"] = PyStr("partial")
    /\ outcome = [kind |-> "raise", type |-> "ValueError",
                  msg |-> "Invalid run_config.node_merge_strategy: partial"]

-----------------------------------------------------------------------------
(* Properties of the client *)

\* C9: ensuring an experiment is read-through-create. A lookup that succeeds
\* gives the id found and creates nothing; a lookup that fails with the
\* not-found error ("No experiment is found ...") creates exactly one
\* experiment, with the name and the namespace asked for, and gives its id; any
\* other failure of the lookup is re-raised as it is and creates nothing.
C9_ReadThroughCreate ==
    [][call'.op = "_ensure_experiment_exists" =>
        LET lookup == call'.lookup
            name == call'.experiment_name
            namespace == call'.experiment_namespace
            new == server'.experiments \ server.experiments
        IN  /\ server.experiments \subseteq server'.experiments
            /\ IF lookup.kind = "return"
               THEN /\ outcome' = [kind |-> "return", val |-> lookup.val.id]
                    /\ server' = server
               ELSE IF lookup = [kind |-> "raise", type |-> "ValueError",
                                 msg |-> NotFoundMessage(name)]
               THEN /\ Cardinality(new) = 1
                    /\ Len(server'.creates) = Len(server.creates) + 1
                    /\ \A e \in new :
                            /\ e.name = name
                            /\ e.namespace = namespace
                            /\ outcome' = [kind |-> "return", val |-> e.id]
                            /\ e.id \notin {x.id : x \in server.experiments}
               ELSE /\ outcome' = lookup
                    /\ server' = server]_vars

\* exp1 was not found in team-a and has been created there, beside another one
C9_Witness ==
    /\ call.op = "_ensure_experiment_exists"
    /\ call.experiment_name = "exp1"
    /\ call.experiment_namespace = "team-a"
    /\ call.lookup = Raise("ValueError", NotFoundMessage("exp1"))
    /\ Len(server.creates) = 2
    /\ server.creates[2].name = "exp1"
    /\ server.creates[2].namespace = "team-a"
    /\ outcome = Return(server.creates[2].id)

-----------------------------------------------------------------------------
(* Properties of the merged strategy *)

\* C10: with no exit pipeline configured the merged strategy makes of any
\* pipeline, whatever the number of its nodes, exactly one unit, named after the
\* pipeline, with the image and the pull policy of the call, and no dependency
\* edge.
C10_OneUnitNoEdges ==
    (call.op = "generate_pipeline"
        /\ ("on_exit_pipeline" \notin DOMAIN config.run_config
                \/ config.run_config["on_exit_pipeline"] = PyNone)) =>
        /\ outcome.kind = "return"
        /\ DOMAIN outcome.val.ops = {call.pipeline}
        /\ outcome.val.ops[call.pipeline].name = call.pipeline
        /\ outcome.val.ops[call.pipeline].image = call.image
        /\ outcome.val.ops[call.pipeline].image_pull_policy
                = [t |-> "str", s |-> call.image_pull_policy]
        /\ outcome.val.edges = {}
        /\ outcome.val.exit_handlers = {}

\* the two-node pipeline node1: A -> B, node2: B -> C as one unit "pipeline"
C10_Witness ==
    /\ call = [op |-> "generate_pipeline", pipeline |-> "pipeline",
                image |-> "unittest-image", image_pull_policy |-> "Never"]
    /\ Len(context.pipelines["pipeline"]) = 2
    /\ context.pipelines["pipeline"][2].inputs = context.pipelines["pipeline"][1].outputs
    /\ "on_exit_pipeline" \notin DOMAIN config.run_config
    /\ Cardinality(DOMAIN outcome.val.ops) = 1
    /\ outcome.val.ops["pipeline"].image = "unittest-image"
    /\ outcome.val.ops["pipeline"].image_pull_policy = PyStr("Never")
    /\ outcome.val.edges = {}

-----------------------------------------------------------------------------
(* Properties of the exit handler *)

ExitConfigured ==
    /\ "on_exit_pipeline" \in DOMAIN config.run_config
    /\ config.run_config["on_exit_pipeline"] # PyNone

\* the topology generated: one more unit, whose command runs the exit pipeline,
\* in no edge, when an exit pipeline is configured; no such unit otherwise
ExitUnitOfTopology ==
    (call.op = "generate_pipeline" /\ outcome.kind = "return") =>
        LET t == outcome.val
        IN  IF ExitConfigured
            THEN /\ DOMAIN t.ops = {call.pipeline, "on-exit"}
                 /\ Cardinality(DOMAIN t.ops) = 2
                 /\ t.exit_handlers = {"on-exit"}
                 /\ SubSeq(t.ops["on-exit"].command,
                           Len(t.ops["on-exit"].command) - 1,
                           Len(t.ops["on-exit"].command))
                        = <<"--pipeline", config.run_config["on_exit_pipeline"].s>>
                 /\ \A edge \in t.edges : "on-exit" \notin {edge[1], edge[2]}
            ELSE /\ DOMAIN t.ops = {call.pipeline}
                 /\ t.exit_handlers = {}

\* the execution: the exit handler has not started while another unit has not
\* finished
ExitUnitRunsLast ==
    server.run # NoRun =>
        /\ ExitConfigured <=> "on-exit" \in DOMAIN server.run.status
        /\ ExitConfigured =>
                (server.run.status["on-exit"] # "pending" =>
                    \A other \in (DOMAIN server.run.status) \ {"on-exit"} :
                        server.run.status[other] \in {"succeeded", "failed"})

ExitUnitHasRun ==
    /\ server.run # NoRun
    /\ "on-exit" \in DOMAIN server.run.status
    /\ server.run.status["on-exit"] \in {"succeeded", "failed"}

\* C11: with on_exit_pipeline configured the topology has exactly one more
\* unit, the exit handler, whose command runs the exit pipeline and which is in
\* no dependency edge; in every execution it runs, and only after all other
\* units have finished, in success or in failure. Without on_exit_pipeline
\* there is no such unit.
C11_ExitHandlerRunsLast ==
    /\ [](ExitUnitOfTopology /\ ExitUnitRunsLast)
    /\ (server.run # NoRun /\ ExitConfigured) ~> ExitUnitHasRun

\* the pipeline's unit has failed and the exit handler has run after it
C11_Witness ==
    /\ server.run # NoRun
    /\ ExitConfigured
    /\ config.run_config["on_exit_pipeline"] = PyStr("notify_via_slack")
    /\ server.run.status["pipeline"] = "failed"
    /\ server.run.status["on-exit"] = "succeeded"
    /\ server.run.topology.ops["on-exit"].command
            = <<"kedro", "run", "--config", "config.yaml", "--env", "unittests",
                "--pipeline", "notify_via_slack">>

-----------------------------------------------------------------------------
(* Properties of the artifact outputs *)

ExposureConfigured ==
    "store_kedro_outputs_as_kfp_artifacts" \in DOMAIN config.run_config

ExposureEnabled ==
    ExposureConfigured =>
        config.run_config["store_kedro_outputs_as_kfp_artifacts"] = PyBool(TRUE)

ExposureDisabled ==
    /\ ExposureConfigured
    /\ config.run_config["store_kedro_outputs_as_kfp_artifacts"] = PyBool(FALSE)

\* the outputs of the pipeline whose descriptor in the catalog has a file path
OutputsWithFilePath ==
    {o \in PipelineOutputs(context, call.pipeline) :
        /\ o \in DOMAIN context.catalog
        /\ "filepath" \in DOMAIN context.catalog[o]}

\* C12: with the exposure enabled (also by default, the key being absent) the
\* declared outputs of the unit map exactly the outputs whose catalog
\* descriptor has a file path, each to /home/kedro/ followed by that path; with
\* the exposure disabled the declared outputs are empty whatever the catalog.
C12_FileOutputsOfCatalog ==
    (call.op = "generate_pipeline" /\ outcome.kind = "return") =>
        LET file_outputs == outcome.val.ops[call.pipeline].file_outputs
        IN  /\ ExposureEnabled =>
                /\ DOMAIN file_outputs = OutputsWithFilePath
                /\ \A o \in OutputsWithFilePath :
                        file_outputs[o] = "/home/kedro/" \o context.catalog[o].filepath
            /\ ExposureDisabled => DOMAIN file_outputs = {}

\* the catalog of the test, no exposure configured: B -> /home/kedro/...b.csv
C12_Witness ==
    /\ call.op = "generate_pipeline"
    /\ outcome.kind = "return"
    /\ ~ExposureConfigured
    /\ "A" \in DOMAIN context.catalog /\ "filepath" \in DOMAIN context.catalog["A"]
    /\ "C" \in DOMAIN context.catalog /\ "filepath" \notin DOMAIN context.catalog["C"]
    /\ outcome.val.ops["pipeline"].file_outputs
            = ("B" :> "/home/kedro/data/02_intermediate/b.csv")

\* exposure disabled, the catalog holding files: nothing is declared
C12_WitnessDisabled ==
    /\ call.op = "generate_pipeline"
    /\ outcome.kind = "return"
    /\ ExposureDisabled
    /\ OutputsWithFilePath = {"B", "C"}
    /\ outcome.val.ops["pipeline"].file_outputs = EmptyDict

-----------------------------------------------------------------------------
(* Properties of the parameter binding *)

\* the ISO calendar date of the dates among the parameter values
IsoDate(date) ==
    CASE date = PyDate(2022, 2, 24) -> "2022-02-24"
      [] date = PyDate(2021, 11, 3) -> "2021-11-03"

ExpectedDefault(value) ==
    IF value.t = "date" THEN PyStr(IsoDate(value)) ELSE value

\* C13: every parameter of the pipeline is exactly one formal input of the
\* top-level unit, none more and none fewer, whose default is the declared value,
\* a date as its ISO calendar date and any other scalar unchanged; the argument
\* list of the unit holds, in declaration order, the name of each parameter
\* followed by a run-time reference to it, never the literal default.
C13_ParametersBound ==
    (call.op = "generate_pipeline" /\ outcome.kind = "return") =>
        LET params == context.params
            formals == outcome.val.parameters
            args == outcome.val.ops[call.pipeline].args
        IN  /\ Len(formals) = Len(params)
            /\ \A i \in 1..Len(params) :
                    /\ formals[i].name = params[i].name
                    /\ formals[i].default = ExpectedDefault(params[i].value)
            /\ Len(args) = 1 + 2 * Len(params)
            /\ \A i \in 1..Len(params) :
                    /\ args[2 * i] = params[i].name
                    /\ args[2 * i + 1]
                            = "{{pipelineparam:op=;name=" \o params[i].name \o "}}"
                    /\ formals[i].default.t = "str" =>
                            args[2 * i + 1] # formals[i].default.s

\* the parameters of the test: three formal inputs, the date as 2022-02-24
C13_Witness ==
    /\ call.op = "generate_pipeline"
    /\ outcome.kind = "return"
    /\ context.params = <<[name |-> "param1", value |-> PyFloat(1)],
                          [name |-> "param2", value |-> PyInt(42)],
                          [name |-> "param3", value |-> PyDate(2022, 2, 24)]>>
    /\ outcome.val.parameters
            = <<[name |-> "param1", default |-> PyFloat(1)],
                [name |-> "param2", default |-> PyInt(42)],
                [name |-> "param3", default |-> PyStr("2022-02-24")]>>
    /\ SubSeq(outcome.val.ops["pipeline"].args, 2, 7)
            = <<"param1", "{{pipelineparam:op=;name=param1}}",
                "param2", "{{pipelineparam:op=;name=param2}}",
                "param3", "{{pipelineparam:op=;name=param3}}">>

-----------------------------------------------------------------------------
(* Properties of the construction of the client *)

\* host and run_config are present
Constructible == {"host", "run_config"} \subseteq DOMAIN config

\* the strategy as text: "none" when absent, str() of the value otherwise
ConfiguredStrategy ==
    IF "node_merge_strategy" \in DOMAIN config.run_config
    THEN StrategyText(config.run_config["node_merge_strategy"])
    ELSE "none"

\* C14: the constructor selects the generator from node_merge_strategy: "none"
\* the generator of one unit per node, "full" the merged one; with any other
\* value the read of node_merge_strategy has failed with the invalid-value
\* ValueError and no generator is chosen, so the constructor's own
\* unknown-strategy exception is never raised.
C14_StrategySelectsGenerator ==
    call.op = "KubeflowClient" =>
        /\ ~(outcome.kind = "raise" /\ outcome.type = "Exception")
        /\ Constructible =>
            /\ ConfiguredStrategy = "none" =>
                    /\ outcome.kind = "return"
                    /\ outcome.val.generator = "PodPerNodePipelineGenerator"
            /\ ConfiguredStrategy = "full" =>
                    /\ outcome.kind = "return"
                    /\ outcome.val.generator = "OnePodPipelineGenerator"
            /\ ConfiguredStrategy \notin {"none", "full"} =>
                    outcome = Raise("ValueError",
                                    "Invalid run_config.node_merge_strategy: "
                                        \o ConfiguredStrategy)

\* "full" is configured and the merged generator is selected
C14_Witness ==
    /\ call.op = "KubeflowClient"
    /\ Constructible
    /\ "node_merge_strategy" \in DOMAIN config.run_config
    /\ config.run_config["node_merge_strategy"] = PyStr("full")
    /\ outcome.kind = "return"
    /\ outcome.val.generator = "OnePodPipelineGenerator"

\* an invalid strategy ends the construction in the accessor's ValueError
C14_WitnessInvalid ==
    /\ call.op = "KubeflowClient"
    /\ Constructible
    /\ "node_merge_strategy" \in DOMAIN config.run_config
    /\ config.run_config["node_merge_strategy"] = PyStr("partial")
    /\ outcome = Raise("ValueError", "Invalid run_config.node_merge_strategy: partial")

-----------------------------------------------------------------------------
(* Properties of the scheduling *)

ScheduleSucceeded == call.op = "schedule" /\ outcome.kind = "return"

\* the calls of a successful schedule(): the experiment, the deletions, and one
\* creation at the end
ScheduleCallsInOrder ==
    ScheduleSucceeded =>
        /\ Len(call.calls) >= 2
        /\ call.calls[1].op = "_ensure_experiment_exists"
        /\ call.calls[Len(call.calls)].op = "create_recurring_run"
        /\ \A i \in 2..(Len(call.calls) - 1) : call.calls[i].op = "delete_job"

\* no experiment holds two recurring runs of one name
AtMostOneRunPerName ==
    \A one \in server.jobs, other \in server.jobs :
        (one.experiment_id = other.experiment_id /\ one.name = other.name)
            => one = other

\* C15: schedule() ensures the experiment, then deletes the recurring runs of
\* the experiment that bear the formatted run name, and only then creates one
\* recurring run; so after any sequence of successful schedule() calls no
\* experiment holds more than one recurring run of a name.
C15_ScheduleReplaces == ScheduleCallsInOrder /\ AtMostOneRunPerName

\* the recurring runs of other names are left alone, and those of the formatted
\* name that the listing returned are gone
ScheduleDeletesNamesakesOnly ==
    [][(call'.op = "schedule" /\ outcome'.kind = "return") =>
        LET created == CHOOSE job \in server'.jobs : job.id = server'.created
        IN  /\ \A job \in server.jobs :
                    job.name # created.name => job \in server'.jobs
            /\ \A job \in server.jobs \ server'.jobs :
                    /\ job.experiment_id = created.experiment_id
                    /\ job.name = created.name
            /\ server'.jobs \ server.jobs = {created}]_vars

\* a recurring run has been replaced: deleted, and created anew
ScheduleReplacedOne ==
    /\ ScheduleSucceeded
    /\ Len(call.calls) = 3
    /\ call.calls[2].op = "delete_job"
    /\ AtMostOneRunPerName

====
